---- MODULE Spec2Model ----
(***************************************************************************)
(* Ambassador Quiz App (src/app.py): the adaptive assessment logic.        *)
(*                                                                         *)
(*   assign_level_by_score   placement score -> proficiency level         *)
(*   placement               stratified random selection + level update   *)
(*   quiz_passage            page / passage selection with level filter   *)
(*   mcq grading             case- and whitespace-insensitive equality     *)
(*   subjective grading      overlap of the word sets of key and answer    *)
(*   quiz_passage POST       one Attempt per displayed question            *)
(*   quiz_complete, teacher_dashboard, teacher_export_pdf   the reports    *)
(*   signup, login, the teacher's authoring, delete and reset, seed        *)
(*   student_dashboard, quiz_start, and the student's browser: the forms   *)
(*   it was sent, the timer script of a quiz page, the walk through a quiz *)
(*                                                                         *)
(* Strings are sequences of one-character strings.  Database tables are    *)
(* sequences of rows in primary-key order (Question.query.all() and the    *)
(* order_by(Question.id) queries both yield that order).                   *)
(***************************************************************************)
EXTENDS Integers, Sequences, FiniteSets, TLC

VARIABLES
    questions,   \* table Question: sequence of rows, ascending id
    students,    \* table Student: function student id -> row
    quizzes,     \* table Quiz: function quiz id -> row
    passages,    \* table Passage: sequence of rows, ascending id
    attempts,    \* table Attempt: sequence of rows, ascending id
    session,     \* the student's browser session: NoSession or what login stored
    teacher,     \* the teacher's browser session: "teacher" in session
    resp,        \* outcome of the last request handled (with the handler's locals)
    tabs,        \* the forms open in the student's browser, as they were rendered
    lc,          \* one call of assign_level_by_score: arguments and result
    gr           \* one graded answer: question key, form value, results

vars == <<questions, students, quizzes, passages, attempts, session, teacher,
          resp, tabs, lc, gr>>

appVars == <<questions, students, quizzes, passages, attempts, session, teacher,
             resp, tabs>>

(***************************************************************************)
(* Bounds                                                                  *)
(***************************************************************************)
MaxTotal == 10

MaxStrLen == 3

MaxPool == 6

MaxQuizQuestions == 6

MaxFormQid == 2

MaxPIndex == 2

MaxQuizId == 2

MaxAnswerWords == 4

MaxAttempts == 4

MaxRoundQid == 6

MaxOpsAttempts == 2

None == "None"

NoSession == [student_id |-> 0, student_user_id |-> None]

\* a response that carries nothing but its kind
Reply(route, method, kind) == [route |-> route, method |-> method, kind |-> kind]

NoResp == Reply("none", "none", "none")

\* no form of that kind is open in the student's browser
NoForm == [kind |-> "none"]

\* the student's browser: the placement form and the quiz page it holds
NoTabs == [placement |-> NoForm, quiz |-> NoForm]

(***************************************************************************)
(* Generic helpers                                                         *)
(***************************************************************************)
Min(a, b) == IF a <= b THEN a ELSE b

Range(s) == {s[i] : i \in DOMAIN s}

(***************************************************************************)
(* assign_level_by_score (app.py 108-116).                                 *)
(* pct = (score*100.0)/total is compared with the integers 80 and 40; for  *)
(* an integer k and score, total >= 0 the quotient is >= k exactly when    *)
(* its integer part is, and float rounding is monotone, so the comparison  *)
(* is made on the integer part of the quotient.  The record also says      *)
(* whether line 111, the division, was executed.                           *)
(***************************************************************************)
MutPctAbove(score, total, k) == (score * 100) \div total > k

PctAtLeast(score, total, k) == (score * 100) \div total >= k

MutAssignLevelDivideFirst(score, total) ==
    IF total = 0
    THEN [level |-> "ZeroDivisionError", divided |-> TRUE]
    ELSE [level |-> IF PctAtLeast(score, total, 80) THEN "advanced"
                    ELSE IF PctAtLeast(score, total, 40) THEN "intermediate"
                    ELSE "beginner",
          divided |-> TRUE]

AssignLevelRun(score, total) ==
    IF total = 0
    THEN [level |-> "unknown", divided |-> FALSE]
    ELSE [level |-> IF PctAtLeast(score, total, 80) THEN "advanced"
                    ELSE IF PctAtLeast(score, total, 40) THEN "intermediate"
                    ELSE "beginner",
          divided |-> TRUE]

MutAssignLevelSwapped(score, total) ==
    LET l == AssignLevelRun(score, total).level
    IN  IF l = "advanced" THEN "intermediate"
        ELSE IF l = "intermediate" THEN "advanced" ELSE l

assign_level_by_score(score, total) == AssignLevelRun(score, total).level

Levels == {"unknown", "beginner", "intermediate", "advanced"}

(***************************************************************************)
(* Specification SpecLevel: one call of the classifier on arguments drawn  *)
(* from 0..MaxTotal.                                                       *)
(***************************************************************************)
EmptyApp ==
    /\ questions = <<>>
    /\ students = <<>>
    /\ quizzes = <<>>
    /\ passages = <<>>
    /\ attempts = <<>>
    /\ session = NoSession
    /\ teacher = FALSE
    /\ resp = NoResp
    /\ tabs = NoTabs

NoGrade == [pc |-> "off"]

NoLevelCall == [pc |-> "off"]

InitLevel ==
    /\ EmptyApp
    /\ gr = NoGrade
    /\ \E score \in 0..MaxTotal, total \in 0..MaxTotal :
          lc = [pc |-> "call", score |-> score, total |-> total,
                level |-> None, divided |-> FALSE]

Classify ==
    /\ lc.pc = "call"
    /\ lc' = [lc EXCEPT !.pc = "done",
                        !.level = assign_level_by_score(lc.score, lc.total),
                        !.divided = AssignLevelRun(lc.score, lc.total).divided]
    /\ UNCHANGED <<appVars, gr>>

NextLevel == Classify

SpecLevel == InitLevel /\ [][NextLevel]_vars

LevelRank(l) ==
    CASE l = "beginner" -> 1
      [] l = "intermediate" -> 2
      [] l = "advanced" -> 3
      [] OTHER -> 0

\* C1: for total > 0 and 0 <= score <= total the classifier returns exactly
\* one of the three levels: advanced iff 100*score >= 80*total, intermediate
\* iff 40*total <= 100*score < 80*total, beginner iff 100*score < 40*total;
\* (8,10) and (4,5) are advanced, (5,10) intermediate, (3,10) beginner.
LevelByScoreCorrect ==
    (lc.pc = "done" /\ lc.total > 0 /\ lc.score <= lc.total) =>
        /\ lc.level \in {"beginner", "intermediate", "advanced"}
        /\ (lc.level = "advanced") <=> (100 * lc.score >= 80 * lc.total)
        /\ (lc.level = "intermediate") <=>
               (40 * lc.total <= 100 * lc.score /\ 100 * lc.score < 80 * lc.total)
        /\ (lc.level = "beginner") <=> (100 * lc.score < 40 * lc.total)
        /\ (lc.score = 8 /\ lc.total = 10) => lc.level = "advanced"
        /\ (lc.score = 4 /\ lc.total = 5) => lc.level = "advanced"
        /\ (lc.score = 5 /\ lc.total = 10) => lc.level = "intermediate"
        /\ (lc.score = 3 /\ lc.total = 10) => lc.level = "beginner"

LevelByScoreWitness ==
    lc.pc = "done" /\ lc.score = 8 /\ lc.total = 10 /\ lc.level = "advanced"

\* C2: with total = 0 the classifier returns unknown for every score, and the
\* division of line 111 is not executed.
ZeroTotalUnknown ==
    (lc.pc = "done" /\ lc.total = 0) => (lc.level = "unknown" /\ ~lc.divided)

ZeroTotalWitness ==
    lc.pc = "done" /\ lc.total = 0 /\ lc.score = 3 /\ lc.level = "unknown"

\* C3: the level is monotonically non-decreasing in score/total: a call whose
\* ratio is <= the ratio of another admissible call never gets a higher level.
LevelMonotone ==
    (lc.pc = "done" /\ lc.total > 0 /\ lc.score <= lc.total) =>
        \A total2 \in 1..MaxTotal : \A score2 \in 0..total2 :
            (lc.score * total2 <= score2 * lc.total) =>
                LevelRank(lc.level) <= LevelRank(assign_level_by_score(score2, total2))

LevelMonotoneWitness ==
    /\ lc.pc = "done" /\ lc.score = 2 /\ lc.total = 5
    /\ lc.level = "intermediate"
    /\ assign_level_by_score(8, 10) = "advanced"

(***************************************************************************)
(* Strings.  str.lower() maps the upper-case letters to lower case and     *)
(* leaves every other character alone; str.strip() removes the leading and *)
(* the trailing whitespace.  Absent stands for a value that is not there:  *)
(* a form field the request did not send, a NULL column.                   *)
(***************************************************************************)
Absent == <<"None">>

Whitespace == {" "}

Punctuation == {",", "."}

LowerOf == ("A" :> "a") @@ ("B" :> "b") @@ ("P" :> "p") @@ ("W" :> "w")
           @@ ("O" :> "o") @@ ("H" :> "h")

LowerChar(c) == IF c \in DOMAIN LowerOf THEN LowerOf[c] ELSE c

Lower(s) == [i \in 1..Len(s) |-> LowerChar(s[i])]

RECURSIVE LStrip(_)
LStrip(s) ==
    IF s # <<>> /\ Head(s) \in Whitespace THEN LStrip(Tail(s)) ELSE s

RECURSIVE RStrip(_)
RStrip(s) ==
    IF s # <<>> /\ s[Len(s)] \in Whitespace
    THEN RStrip(SubSeq(s, 1, Len(s) - 1))
    ELSE s

Strip(s) == RStrip(LStrip(s))

\* x or ""
OrEmpty(x) == IF x = Absent THEN <<>> ELSE x

\* request.form.get(name, "")
FormGet(value) == IF value = Absent THEN <<>> ELSE value

(***************************************************************************)
(* Grading of an mcq answer.                                               *)
(*   placement 369-371: (ans or "").strip().lower() ==                     *)
(*                      (q.correct or "").strip().lower()                  *)
(*   quiz_passage 445, 449-450: ans = request.form.get(...).strip();       *)
(*                      ans.strip().lower() == (q.correct or "")...        *)
(***************************************************************************)
McqCorrectPlacement(ans, correct) ==
    Lower(Strip(OrEmpty(ans))) = Lower(Strip(OrEmpty(correct)))

MutMcqQuizCaseSensitive(form_value, correct) ==
    LET ans == Strip(FormGet(form_value))
    IN  IF Strip(ans) = Strip(OrEmpty(correct)) THEN 1 ELSE 0

McqCorrectFlagQuiz(form_value, correct) ==
    LET ans == Strip(FormGet(form_value))
    IN  IF Lower(Strip(ans)) = Lower(Strip(OrEmpty(correct))) THEN 1 ELSE 0

(***************************************************************************)
(* normalize_words (97-99) and subjective_similarity (101-106).  \w+ finds *)
(* the maximal runs of word characters.  The similarity matches/len(t) is  *)
(* kept as the pair <<numerator, denominator>>; 0.0 is <<0, 1>>.           *)
(***************************************************************************)
IsWordChar(c) == c \notin Whitespace \cup Punctuation

RECURSIVE FindAllWords(_, _)
FindAllWords(s, cur) ==
    IF s = <<>> THEN (IF cur = <<>> THEN {} ELSE {cur})
    ELSE IF IsWordChar(Head(s)) THEN FindAllWords(Tail(s), Append(cur, Head(s)))
    ELSE (IF cur = <<>> THEN {} ELSE {cur}) \cup FindAllWords(Tail(s), <<>>)

normalize_words(txt) ==
    IF txt = Absent \/ txt = <<>> THEN {} ELSE FindAllWords(Lower(txt), <<>>)

subjective_similarity(student_ans, teacher_ans) ==
    LET s == normalize_words(OrEmpty(student_ans))
        t == normalize_words(OrEmpty(teacher_ans))
    IN  IF t = {} THEN <<0, 1>>
        ELSE <<Cardinality({w \in t : w \in s}), Cardinality(t)>>

MutSimAbove(sim) == 10 * sim[1] > 6 * sim[2]

\* sim >= 0.6
SimPasses(sim) == 10 * sim[1] >= 6 * sim[2]

\* placement 366-374: one answer of the form, graded
PlacementAnswerCorrect(q, ans) ==
    IF q.qtype = "mcq"
    THEN McqCorrectPlacement(ans, q.correct)
    ELSE SimPasses(subjective_similarity(OrEmpty(ans), OrEmpty(q.correct)))

\* quiz_passage 445-453: correct_flag of one displayed question
QuizCorrectFlag(q, form_value) ==
    LET ans == Strip(FormGet(form_value))
    IN  IF q.qtype = "mcq"
        THEN McqCorrectFlagQuiz(form_value, q.correct)
        ELSE IF SimPasses(subjective_similarity(OrEmpty(ans), OrEmpty(q.correct)))
             THEN 1 ELSE 0

(***************************************************************************)
(* Specification SpecGrade: one mcq question and one submitted value for   *)
(* it, graded by both routes.  The answer key is a value the authoring     *)
(* routes can store: request.form.get("correct","").strip() (733, 767), so *)
(* any string without surrounding whitespace, the empty one included.  The *)
(* submitted value is any string, or no field at all.                      *)
(***************************************************************************)
Chars == {" ", "a", "A", "b"}

Strings == UNION {[1..n -> Chars] : n \in 0..MaxStrLen}

StoredKeys == {k \in Strings : Strip(k) = k}

FormValues == Strings \cup {Absent}

\* option_a .. option_d as stored: request.form.get(...) or None (729-732)
NoOptions == <<Absent, Absent, Absent, Absent>>

OptionLists == {NoOptions, <<<<"a">>, <<"b">>, Absent, Absent>>}

InitGrade ==
    /\ EmptyApp
    /\ lc = NoLevelCall
    /\ \E key \in StoredKeys, value \in FormValues, options \in OptionLists :
          gr = [pc |-> "submitted", qtype |-> "mcq", correct |-> key,
                options |-> options,
                value |-> value, placement_graded |-> FALSE,
                placement_correct |-> FALSE, quiz_flag |-> 0]

\* The placement loop body (365-374) runs for the question only when the form
\* carries its field; the quiz loop body (444-453) runs for every displayed
\* question.  gr carries the question's qtype and correct.
GradeSubmitted ==
    /\ gr.pc = "submitted"
    /\ gr' = [gr EXCEPT
                !.pc = "graded",
                !.placement_graded = (gr.value # Absent),
                !.placement_correct =
                    (gr.value # Absent /\ PlacementAnswerCorrect(gr, gr.value)),
                !.quiz_flag = QuizCorrectFlag(gr, gr.value)]
    /\ UNCHANGED <<appVars, lc>>

NextGrade == GradeSubmitted

SpecGrade == InitGrade /\ [][NextGrade]_vars

\* The claims' normal form: lower-case first, then trim.
TrimLower(s) == Strip(Lower(s))

IsEmptyAnswer(value) == value = Absent \/ Strip(value) = <<>>

\* C9: an mcq answer is graded correct iff answer and key are equal after
\* lower-casing and trimming; key "Paris" with answer "  paris " is correct;
\* the placement route and the quiz route apply the same rule.
McqGradedByTrimLower ==
    /\ gr.pc = "graded" =>
          /\ (gr.quiz_flag = 1) <=>
                 (TrimLower(OrEmpty(gr.value)) = TrimLower(gr.correct))
          /\ gr.quiz_flag \in {0, 1}
          /\ gr.placement_graded =>
                 (gr.placement_correct <=>
                     (TrimLower(gr.value) = TrimLower(gr.correct)))
          /\ gr.placement_graded => (gr.placement_correct <=> (gr.quiz_flag = 1))
    /\ McqCorrectFlagQuiz(<<" ", " ", "p", "a", "r", "i", "s", " ">>,
                          <<"P", "a", "r", "i", "s">>) = 1
    /\ McqCorrectPlacement(<<" ", " ", "p", "a", "r", "i", "s", " ">>,
                           <<"P", "a", "r", "i", "s">>)

McqGradedWitness ==
    /\ gr.pc = "graded"
    /\ gr.correct = <<"A", "b">>
    /\ gr.value = <<" ", "a", "b">>
    /\ gr.quiz_flag = 1
    /\ gr.placement_correct

\* C10: for every mcq question, whatever its answer key, an empty submitted
\* answer (no value, empty string, whitespace only) is graded incorrect.
EmptyAnswerIncorrect ==
    (gr.pc = "graded" /\ IsEmptyAnswer(gr.value)) =>
        (gr.quiz_flag = 0 /\ ~gr.placement_correct)

\* the key is one of the options the question lists, compared as the claims
\* compare texts
KeyListed(key, options) ==
    \E i \in 1..Len(options) :
        options[i] # Absent /\ TrimLower(options[i]) = TrimLower(key)

\* C11: a question whose answer key is empty, or an mcq question whose key is
\* none of its listed options, is graded incorrect whatever is submitted.
UngradableKeyIncorrect ==
    (/\ gr.pc = "graded"
     /\ \/ gr.correct = <<>>
        \/ gr.qtype = "mcq" /\ ~KeyListed(gr.correct, gr.options))
        => (gr.quiz_flag = 0 /\ ~gr.placement_correct)

(***************************************************************************)
(* Specification SpecFreeText: one subjective question and one answer,     *)
(* graded by both routes.  The key text lists the first n words of Vocab,  *)
(* possibly with a word repeated; the answer text lists up to              *)
(* MaxAnswerWords words of Vocab in any order, with repeats, written plain *)
(* or in upper case with commas.                                           *)
(***************************************************************************)
Vocab == <<"a", "b", "c", "d", "e">>

UpperOf == ("a" :> "A") @@ ("b" :> "B") @@ ("p" :> "P")

Upper(s) == [i \in 1..Len(s) |-> IF s[i] \in DOMAIN UpperOf THEN UpperOf[s[i]] ELSE s[i]]

RECURSIVE Join(_, _)
Join(words, sep) ==
    IF words = <<>> THEN <<>>
    ELSE IF Len(words) = 1 THEN <<words[1]>>
    ELSE <<words[1]>> \o sep \o Join(Tail(words), sep)

WordLists == UNION {[1..n -> Range(Vocab)] : n \in 0..MaxAnswerWords}

InitFreeText ==
    /\ EmptyApp
    /\ lc = NoLevelCall
    /\ \E n \in 0..Len(Vocab), repeat \in BOOLEAN, ans_words \in WordLists,
          shout \in BOOLEAN :
          LET key_words == IF repeat /\ n > 0
                           THEN Append(SubSeq(Vocab, 1, n), Vocab[1])
                           ELSE SubSeq(Vocab, 1, n)
              plain == Join(ans_words, <<" ">>)
          IN  gr = [pc |-> "submitted", qtype |-> "subjective",
                    correct |-> Join(key_words, <<" ">>), options |-> NoOptions,
                    value |-> IF shout THEN Upper(Join(ans_words, <<",", " ">>))
                              ELSE plain,
                    key_words |-> key_words, ans_words |-> ans_words,
                    placement_graded |-> FALSE, placement_correct |-> FALSE,
                    quiz_flag |-> 0]

NextFreeText == GradeSubmitted

SpecFreeText == InitFreeText /\ [][NextFreeText]_vars

\* C12: with keyWords and answerWords the sets of distinct lower-case words
\* of key and answer, a subjective answer is graded incorrect when keyWords is
\* empty, and otherwise correct iff 10 * |keyWords \cap answerWords| >=
\* 6 * |keyWords|, whatever the order and the repeats of the answer's words.
FreeTextByOverlap ==
    (gr.pc = "graded" /\ gr.qtype = "subjective") =>
        LET keyWords == Range(gr.key_words)
            answerWords == Range(gr.ans_words)
            passes == /\ keyWords # {}
                      /\ 10 * Cardinality(keyWords \cap answerWords)
                            >= 6 * Cardinality(keyWords)
        IN  /\ (gr.quiz_flag = 1) <=> passes
            /\ gr.quiz_flag \in {0, 1}
            /\ gr.placement_correct <=> passes

FreeTextWitness ==
    /\ gr.pc = "graded"
    /\ gr.qtype = "subjective"
    /\ gr.key_words = <<"a", "b", "c", "d", "e", "a">>
    /\ gr.ans_words = <<"c", "a", "c", "b">>
    /\ gr.value = <<"c", ",", " ", "A", ",", " ", "c", ",", " ", "B">>
    /\ gr.quiz_flag = 1

(***************************************************************************)
(* The application.  A Question row is                                     *)
(*   [id, quiz_id, passage_id, qtype, options, correct, difficulty]        *)
(* with Null for a NULL foreign key; a Student row is [level]; a Quiz row  *)
(* is [is_passage_based, use_level_filter]; a Passage row is [id, quiz_id].*)
(***************************************************************************)
Null == 0

PlacementSize == 5

PageSize == 5

DisplayCap == 5

\* difficulty is a free form field (734, 768): the three the forms offer and
\* one that is none of them
Difficulties == {"easy", "medium", "hard", "expert"}

RemoveAt(s, i) == SubSeq(s, 1, i - 1) \o SubSeq(s, i + 1, Len(s))

\* random.sample(pool, k): every sequence of k elements at distinct positions
RECURSIVE Samples(_, _)
Samples(pool, k) ==
    IF k = 0 THEN {<<>>}
    ELSE UNION {{<<pool[i]>> \o rest : rest \in Samples(RemoveAt(pool, i), k - 1)} :
                   i \in 1..Len(pool)}

MutPickAnyDifficulty(all_qs, diff, n) == Samples(all_qs, Min(n, Len(all_qs)))

\* placement.pick (354-356)
pick(all_qs, diff, n) ==
    LET pool == SelectSeq(all_qs, LAMBDA q : q.difficulty = diff)
    IN  Samples(pool, Min(n, Len(pool)))

MutFillFromAll(all_qs, chosen) ==
    IF Len(chosen) < PlacementSize
    THEN Samples(all_qs, Min(PlacementSize - Len(chosen), Len(all_qs)))
    ELSE {<<>>}

MutFillKnownDifficulty(all_qs, chosen) ==
    IF Len(chosen) < PlacementSize
    THEN LET pool == SelectSeq(all_qs, LAMBDA q :
                         q \notin Range(chosen)
                         /\ q.difficulty \in {"easy", "medium", "hard"})
         IN  IF pool # <<>>
             THEN Samples(pool, Min(PlacementSize - Len(chosen), Len(pool)))
             ELSE {<<>>}
    ELSE {<<>>}

\* placement 358-361: the draws that top the quota picks up to five
FillSamples(all_qs, chosen) ==
    IF Len(chosen) < PlacementSize
    THEN LET pool == SelectSeq(all_qs, LAMBDA q : q \notin Range(chosen))
         IN  IF pool # <<>>
             THEN Samples(pool, Min(PlacementSize - Len(chosen), Len(pool)))
             ELSE {<<>>}
    ELSE {<<>>}

\* placement 353-361: every value the list chosen can end with
PlacementChosen(all_qs) ==
    LET quota == {c[1] \o c[2] \o c[3] :
                    c \in pick(all_qs, "easy", 2) \X pick(all_qs, "medium", 2)
                          \X pick(all_qs, "hard", 1)}
    IN  UNION {{chosen \o fill : fill \in FillSamples(all_qs, chosen)} :
                  chosen \in quota}

\* Question.query.get(qid), for a qid that QuestionExists
QuestionExists(qid) == \E i \in 1..Len(questions) : questions[i].id = qid

QuestionGet(qid) == SelectSeq(questions, LAMBDA q : q.id = qid)[1]

(***************************************************************************)
(* placement (343-391), GET.                                               *)
(***************************************************************************)
\* 352: nothing was selected, nothing was graded
NoQuestions(method) ==
    [route |-> "placement", method |-> method, kind |-> "no_questions", graded |-> 0]

MutNeverEmpty(all_qs) == FALSE

\* 351: if not all_qs
PlacementEmpty(all_qs) == all_qs = <<>>

PlacementGet ==
    /\ IF session.student_id = Null
       THEN resp' = Reply("placement", "GET", "redirect_login")
       ELSE IF PlacementEmpty(questions)
       THEN resp' = NoQuestions("GET")
       ELSE \E chosen \in PlacementChosen(questions) :
               resp' = [route |-> "placement", method |-> "GET",
                        kind |-> "placement_form", chosen |-> chosen]
    /\ UNCHANGED <<questions, students, quizzes, passages, attempts, session,
                   teacher, lc, gr>>

(***************************************************************************)
(* placement (343-391), POST.  form.answers maps the ids n of the fields   *)
(* q_n to their values; form.bad_key says that a field q_x with x not an   *)
(* integer was sent, on which int() raises (363).  The list chosen is      *)
(* built as for GET and not used.                                          *)
(***************************************************************************)
MutPlacementScoreCountsAll(answers) ==
    LET found == {qid \in DOMAIN answers : QuestionExists(qid)}
    IN  [total |-> Cardinality(DOMAIN answers),
         score |-> Cardinality({qid \in found :
                      PlacementAnswerCorrect(QuestionGet(qid), answers[qid])})]

\* 363-374: the loop over the answers of the form
PlacementScore(answers) ==
    LET found == {qid \in DOMAIN answers : QuestionExists(qid)}
    IN  [total |-> Cardinality(found),
         score |-> Cardinality({qid \in found :
                      PlacementAnswerCorrect(QuestionGet(qid), answers[qid])})]

PlacementPost(form) ==
    /\ IF session.student_id = Null
       THEN /\ resp' = Reply("placement", "POST", "redirect_login")
            /\ UNCHANGED students
       ELSE IF PlacementEmpty(questions)
       THEN /\ resp' = NoQuestions("POST")
            /\ UNCHANGED students
       ELSE IF form.bad_key \/ session.student_id \notin DOMAIN students
       THEN /\ resp' = Reply("placement", "POST", "error")
            /\ UNCHANGED students
       ELSE LET answers == form.answers
                total == PlacementScore(answers).total
                score == PlacementScore(answers).score
                level == assign_level_by_score(score, total)
            IN  /\ students' = [students EXCEPT ![session.student_id].level = level]
                /\ resp' = [route |-> "placement", method |-> "POST",
                            kind |-> "placement_complete", level |-> level,
                            score |-> score, graded |-> total,
                            answers |-> answers]
    /\ UNCHANGED <<questions, quizzes, passages, attempts, session, teacher,
                   lc, gr>>

(***************************************************************************)
(* quiz_passage (401-438, 484-576), GET: the page's questions, the level   *)
(* filter and the questions displayed.                                     *)
(***************************************************************************)
\* 424: pages of up to five questions, one empty page when there is none
Pages(questions_all) ==
    IF questions_all = <<>> THEN <<<<>>>>
    ELSE [i \in 1..((Len(questions_all) + PageSize - 1) \div PageSize) |->
             SubSeq(questions_all, (i - 1) * PageSize + 1,
                    Min(i * PageSize, Len(questions_all)))]

MutLevelAllowsEasyForAll(level, difficulty) ==
    \/ level = "beginner" /\ difficulty \in {"easy", "medium"}
    \/ level = "intermediate" /\ difficulty \in {"easy", "medium", "hard"}
    \/ level = "advanced" /\ difficulty \in {"hard", "medium"}

\* 430-434
LevelAllows(level, difficulty) ==
    /\ difficulty \in {"easy", "medium", "hard"}
    /\ \/ level = "beginner" /\ difficulty \in {"easy", "medium"}
       \/ level = "intermediate" /\ difficulty \in {"medium", "hard"}
       \/ level = "advanced" /\ difficulty \in {"hard", "medium"}

\* 429-436
LevelFiltered(quiz, student, page) ==
    IF quiz.use_level_filter # 0 /\ student.level \notin {None, ""}
       /\ student.level # "unknown"
    THEN LET filtered == SelectSeq(page, LAMBDA q : LevelAllows(student.level, q.difficulty))
         IN  IF filtered # <<>> THEN filtered ELSE page
    ELSE page

\* 438: questions[:5]
DisplayQuestions(qs) == SubSeq(qs, 1, Min(DisplayCap, Len(qs)))

QuizPage(quiz_id, p_index, student, page) ==
    LET quiz == quizzes[quiz_id]
        candidates == LevelFiltered(quiz, student, page)
    IN  [route |-> "quiz_passage", method |-> "GET", kind |-> "quiz_page",
         quiz_id |-> quiz_id, p_index |-> p_index,
         page |-> page, candidates |-> candidates,
         display |-> DisplayQuestions(candidates)]

\* quiz_passage 403-438: the early answers, or the page with display_questions
QuizPassageSelect(quiz_id, p_index) ==
    IF session.student_id = Null
    THEN Reply("quiz_passage", "GET", "redirect_login")
    ELSE IF quiz_id \notin DOMAIN quizzes
    THEN Reply("quiz_passage", "GET", "quiz_not_found")
    ELSE LET missing == session.student_id \notin DOMAIN students
             student == IF missing THEN [level |-> None]
                        ELSE students[session.student_id]
             quiz == quizzes[quiz_id]
         IN  IF quiz.is_passage_based # 0
             THEN LET ps == SelectSeq(passages, LAMBDA x : x.quiz_id = quiz_id)
                  IN  IF ps = <<>>
                      THEN Reply("quiz_passage", "GET", "no_passages")
                      ELSE IF p_index < 0 \/ p_index >= Len(ps)
                      THEN Reply("quiz_passage", "GET", "redirect_page0")
                      ELSE LET passage == ps[p_index + 1]
                               page == SelectSeq(questions,
                                           LAMBDA q : q.passage_id = passage.id)
                           IN  IF missing /\ quiz.use_level_filter # 0
                               THEN Reply("quiz_passage", "GET", "error")
                               ELSE QuizPage(quiz_id, p_index, student, page)
             ELSE LET questions_all == SelectSeq(questions,
                                           LAMBDA q : q.quiz_id = quiz_id)
                      pages == Pages(questions_all)
                  IN  IF p_index < 0 \/ p_index >= Len(pages)
                      THEN Reply("quiz_passage", "GET", "redirect_page0")
                      ELSE IF missing /\ quiz.use_level_filter # 0
                      THEN Reply("quiz_passage", "GET", "error")
                      ELSE QuizPage(quiz_id, p_index, student, pages[p_index + 1])

QuizPassageGet(quiz_id, p_index) ==
    /\ resp' = QuizPassageSelect(quiz_id, p_index)
    /\ UNCHANGED <<questions, students, quizzes, passages, attempts, session,
                   teacher, lc, gr>>

(***************************************************************************)
(* Specification SpecSelect: question selection.  The Question table holds *)
(* up to MaxPool mcq questions of quiz 1, authored in blocks of equal      *)
(* difficulty; the quiz is regular, or passage-based with the questions in *)
(* its one passage; one student of any level is logged in.  A behaviour is *)
(* one request handled in the drawn state.                                 *)
(***************************************************************************)
QuestionRow(id, passage_id, difficulty) ==
    [id |-> id, quiz_id |-> 1, passage_id |-> passage_id, qtype |-> "mcq",
     options |-> <<<<"a">>, <<"b">>, Absent, Absent>>,
     correct |-> <<"a">>, difficulty |-> difficulty]

\* a Student row (36-44)
StudentRow(user_id, level, grade, class_section, gender) ==
    [user_id |-> user_id, level |-> level, grade |-> grade,
     class_section |-> class_section, gender |-> gender]

BlockDifficulty(i, e, m, h) ==
    IF i <= e THEN "easy"
    ELSE IF i <= e + m THEN "medium"
    ELSE IF i <= e + m + h THEN "hard"
    ELSE "expert"

InitStudentAndQuiz ==
    /\ \E level \in Levels : students = (1 :> StudentRow("s1", level, "6", "A", "F"))
    /\ attempts = <<>>
    /\ session = [student_id |-> 1, student_user_id |-> "s1"]
    /\ teacher = FALSE
    /\ resp = NoResp
    /\ tabs = NoTabs
    /\ lc = NoLevelCall
    /\ gr = NoGrade

InitSelect ==
    /\ InitStudentAndQuiz
    /\ \E pb \in {0, 1} :
          /\ quizzes = (1 :> [is_passage_based |-> pb, use_level_filter |-> 1])
          /\ passages = IF pb = 1 THEN <<[id |-> 1, quiz_id |-> 1]>> ELSE <<>>
          /\ \E e \in 0..MaxPool, m \in 0..MaxPool, h \in 0..MaxPool, x \in 0..MaxPool :
                /\ e + m + h + x <= MaxPool
                /\ questions = [i \in 1..(e + m + h + x) |->
                       QuestionRow(i, IF pb = 1 THEN 1 ELSE Null,
                                   BlockDifficulty(i, e, m, h))]

FormAnswers == {<<>>, <<"a">>, <<"b">>}

PlacementForms ==
    {[bad_key |-> b, answers |-> a] :
        b \in BOOLEAN,
        a \in UNION {[ids -> FormAnswers] : ids \in SUBSET (1..MaxFormQid)}}

NextSelect ==
    \/ resp = NoResp /\ UNCHANGED tabs /\ PlacementGet
    \/ resp = NoResp /\ UNCHANGED tabs /\ \E form \in PlacementForms : PlacementPost(form)
    \/ resp = NoResp /\ UNCHANGED tabs /\ \E quiz_id \in 1..MaxQuizId, p_index \in 0..MaxPIndex :
                            QuizPassageGet(quiz_id, p_index)

SpecSelect == InitSelect /\ [][NextSelect]_vars

(***************************************************************************)
(* Specification SpecQuiz: the level filter of quiz_passage.  Quiz 1 holds *)
(* up to MaxQuizQuestions questions of any difficulty in any order, is     *)
(* regular or passage-based, with or without use_level_filter.  A          *)
(* behaviour is one request handled in the drawn state.                    *)
(***************************************************************************)
InitQuiz ==
    /\ InitStudentAndQuiz
    /\ \E pb \in {0, 1}, ulf \in {0, 1} :
          /\ quizzes = (1 :> [is_passage_based |-> pb, use_level_filter |-> ulf])
          /\ passages = IF pb = 1 THEN <<[id |-> 1, quiz_id |-> 1]>> ELSE <<>>
          /\ \E n \in 0..MaxQuizQuestions : \E d \in [1..n -> Difficulties] :
                questions = [i \in 1..n |->
                       QuestionRow(i, IF pb = 1 THEN 1 ELSE Null, d[i])]

NextQuiz ==
    /\ resp = NoResp /\ UNCHANGED tabs
    /\ \E quiz_id \in 1..MaxQuizId, p_index \in 0..MaxPIndex :
          QuizPassageGet(quiz_id, p_index)

SpecQuiz == InitQuiz /\ [][NextQuiz]_vars

(***************************************************************************)
(* Properties of the selection.                                            *)
(***************************************************************************)
DistinctIds(qs) ==
    \A i \in 1..Len(qs) : \A j \in 1..Len(qs) : i # j => qs[i].id # qs[j].id

CountOf(qs, difficulty) ==
    Cardinality({i \in 1..Len(qs) : qs[i].difficulty = difficulty})

\* C4: selection returns at most min(5, |pool|) questions and no question
\* twice: placement's chosen has at most min(5, stored questions) entries with
\* distinct ids, quiz_passage's display_questions at most 5, distinct, all of
\* the current page; for every pool size from 0 upward.
SelectionBoundedDistinct ==
    /\ resp.kind = "placement_form" =>
          /\ Len(resp.chosen) <= Min(5, Len(questions))
          /\ DistinctIds(resp.chosen)
          /\ Range(resp.chosen) \subseteq Range(questions)
    /\ resp.kind = "quiz_page" =>
          /\ Len(resp.display) <= Min(5, Len(resp.page))
          /\ DistinctIds(resp.display)
          /\ Range(resp.display) \subseteq Range(resp.page)
          /\ Range(resp.page) \subseteq Range(questions)

SelectionBoundedWitness ==
    /\ resp.kind = "placement_form"
    /\ Len(questions) = 3
    /\ Len(resp.chosen) = 3
    /\ CountOf(questions, "easy") = 3

\* C5: placement's selection holds at least min(2, easy questions) easy, at
\* least min(2, medium questions) medium and at least min(1, hard questions)
\* hard questions, each quota drawn without replacement from its own bucket:
\* the list starts with the easy draws, then the medium, then the hard ones.
QuotaPerDifficulty ==
    resp.kind = "placement_form" =>
        LET ke == Min(2, CountOf(questions, "easy"))
            km == Min(2, CountOf(questions, "medium"))
            kh == Min(1, CountOf(questions, "hard"))
            chosen == resp.chosen
        IN  /\ CountOf(chosen, "easy") >= ke
            /\ CountOf(chosen, "medium") >= km
            /\ CountOf(chosen, "hard") >= kh
            /\ Len(chosen) >= ke + km + kh
            /\ \A i \in 1..ke : chosen[i].difficulty = "easy"
            /\ \A i \in (ke + 1)..(ke + km) : chosen[i].difficulty = "medium"
            /\ \A i \in (ke + km + 1)..(ke + km + kh) : chosen[i].difficulty = "hard"
            /\ DistinctIds(SubSeq(chosen, 1, ke + km + kh))

QuotaPerDifficultyWitness ==
    /\ resp.kind = "placement_form"
    /\ CountOf(questions, "easy") = 3
    /\ CountOf(questions, "medium") = 1
    /\ CountOf(questions, "hard") = 2
    /\ CountOf(resp.chosen, "easy") = 3
    /\ CountOf(resp.chosen, "hard") = 1

\* C6: when the quota draws give fewer than 5 questions the rest is drawn
\* from the questions not yet chosen, whatever their difficulty, so that the
\* selection has exactly min(5, stored questions) questions.
FilledToFive ==
    resp.kind = "placement_form" =>
        /\ Len(resp.chosen) = Min(5, Len(questions))
        /\ DistinctIds(resp.chosen)
        /\ Len(questions) <= 5 => Range(resp.chosen) = Range(questions)

FilledToFiveWitness ==
    /\ resp.kind = "placement_form"
    /\ Len(questions) = 6
    /\ CountOf(questions, "expert") = 4
    /\ CountOf(questions, "hard") = 2
    /\ Len(resp.chosen) = 5
    /\ CountOf(resp.chosen, "expert") = 3
    /\ CountOf(resp.chosen, "hard") = 2

\* C7: with no Question stored, placement (GET or POST) answers 'No questions
\* available' without raising, grades nothing and leaves the student's level
\* as it was.
EmptyPoolNoError ==
    [][(questions = <<>> /\ session.student_id # Null /\ resp'.route = "placement")
          => /\ resp'.kind = "no_questions"
             /\ resp'.graded = 0
             /\ students' = students]_vars

EmptyPoolWitness ==
    /\ questions = <<>>
    /\ resp.route = "placement"
    /\ resp.method = "POST"
    /\ resp.kind = "no_questions"
    /\ students[1].level = "advanced"

\* the claim's table of difficulties per level
Allowed(level) ==
    CASE level = "beginner" -> {"easy", "medium"}
      [] level = "intermediate" -> {"medium", "hard"}
      [] level = "advanced" -> {"hard", "medium"}
      [] OTHER -> {}

\* C8: with use_level_filter set, the candidates offered to a student of
\* level L are exactly the pool's questions with a difficulty in allowed(L)
\* when there is one, the whole pool when there is none, and the whole pool
\* for level unknown or unset.
LevelFilterCandidates ==
    /\ (resp.kind = "quiz_page" /\ quizzes[resp.quiz_id].use_level_filter = 1) =>
          LET level == students[session.student_id].level
              inLevel == SelectSeq(resp.page, LAMBDA q : q.difficulty \in Allowed(level))
          IN  /\ (level # "unknown" /\ inLevel # <<>>) => resp.candidates = inLevel
              /\ (level # "unknown" /\ inLevel = <<>>) => resp.candidates = resp.page
              /\ level = "unknown" => resp.candidates = resp.page
              /\ Len(resp.candidates) <= 5 => resp.display = resp.candidates
    /\ \A unset \in {None, ""} :
          LevelFiltered([use_level_filter |-> 1], [level |-> unset], questions)
              = questions

LevelFilterWitness ==
    /\ resp.kind = "quiz_page"
    /\ quizzes[resp.quiz_id].use_level_filter = 1
    /\ students[session.student_id].level = "intermediate"
    /\ CountOf(resp.page, "easy") = 2
    /\ CountOf(resp.page, "hard") = 1
    /\ Len(resp.page) = 4
    /\ Len(resp.candidates) = 1

(***************************************************************************)
(* Aggregation of attempts.  An Attempt row is [id, student_id, quiz_id,   *)
(* passage_id, question_id, student_answer, correct].  A percentage is an  *)
(* integer number of hundredths of a percent: 7500 is 75.0.                *)
(***************************************************************************)
AttemptRow(id, student_id, quiz_id, passage_id, question_id, student_answer, correct) ==
    [id |-> id, student_id |-> student_id, quiz_id |-> quiz_id,
     passage_id |-> passage_id, question_id |-> question_id,
     student_answer |-> student_answer, correct |-> correct]

MutRound2Truncate(num, den) == (num * 10000) \div den

\* round(num / den * 100, 2): the nearest hundredth, a tie to the even one
Round2(num, den) ==
    LET q == (num * 10000) \div den
        r == (num * 10000) % den
    IN  IF 2 * r > den THEN q + 1
        ELSE IF 2 * r = den THEN q + (q % 2)
        ELSE q

\* db.func.sum(Attempt.correct) over the rows idx; NULL (None) over no row
RECURSIVE SumCorrect(_)
SumCorrect(idx) ==
    IF idx = {} THEN 0
    ELSE LET i == CHOOSE i \in idx : TRUE
         IN  attempts[i].correct + SumCorrect(idx \ {i})

\* "x or 0" / "x or 1" of a number
OrNumber(x, default) == IF x = 0 THEN default ELSE x

MutQuizCompleteDivideFirst(sid, quiz_id) ==
    LET idx == {i \in 1..Len(attempts) :
                   attempts[i].student_id = sid /\ attempts[i].quiz_id = quiz_id}
        total == OrNumber(Cardinality(idx), 0)
        correct == OrNumber(SumCorrect(idx), 0)
    IN  [total |-> total, correct |-> correct, divisors |-> <<total>>,
         pct |-> IF total > 0 THEN Round2(correct, total) ELSE 0]

\* quiz_complete 588-591: total, correct, pct and the divisors used
QuizCompleteRun(sid, quiz_id) ==
    LET idx == {i \in 1..Len(attempts) :
                   attempts[i].student_id = sid /\ attempts[i].quiz_id = quiz_id}
        total == OrNumber(Cardinality(idx), 0)
        correct == OrNumber(SumCorrect(idx), 0)
    IN  IF total > 0
        THEN [total |-> total, correct |-> correct, divisors |-> <<total>>,
              pct |-> Round2(correct, total)]
        ELSE [total |-> total, correct |-> correct, divisors |-> <<>>, pct |-> 0]

\* quiz_complete 584-593
QuizComplete(quiz_id) ==
    /\ resp' = IF session.student_id = Null
               THEN Reply("quiz_complete", "GET", "redirect_login")
               ELSE [route |-> "quiz_complete", method |-> "GET", kind |-> "score",
                     sid |-> session.student_id, quiz_id |-> quiz_id,
                     run |-> QuizCompleteRun(session.student_id, quiz_id)]
    /\ UNCHANGED <<questions, students, quizzes, passages, attempts, session,
                   teacher, lc, gr>>
\* .join(Attempt, Attempt.student_id == Student.id): the Attempt rows joined
JoinedWithStudent ==
    {i \in 1..Len(attempts) : attempts[i].student_id \in DOMAIN students}

\* .join(Attempt, Attempt.question_id == Question.id)
JoinedWithQuestion ==
    {i \in 1..Len(attempts) : QuestionExists(attempts[i].question_id)}

\* group_by(key) with sum(Attempt.correct) and count(Attempt.id): one row per
\* key value that occurs among the joined rows; key_of maps the index of a
\* joined Attempt row to its key
GroupRows(key_of) ==
    LET keys == {key_of[i] : i \in DOMAIN key_of}
    IN  [k \in keys |->
            LET g == {i \in DOMAIN key_of : key_of[i] = k}
            IN  [correct |-> SumCorrect(g), total |-> Cardinality(g)]]

\* round((r[1] or 0) / (r[2] or 1) * 100, 2) for every row (604, 608, 612, 616)
GroupPcts(rows) ==
    [k \in DOMAIN rows |->
        LET divisor == OrNumber(rows[k].total, 1)
        IN  [correct |-> rows[k].correct, total |-> rows[k].total,
             divisor |-> divisor,
             pct |-> Round2(OrNumber(rows[k].correct, 0), divisor)]]

GradeOf == [i \in JoinedWithStudent |-> students[attempts[i].student_id].grade]

ClassOf ==
    [i \in JoinedWithStudent |-> students[attempts[i].student_id].class_section]

GenderOf == [i \in JoinedWithStudent |-> students[attempts[i].student_id].gender]

UserOf == [i \in JoinedWithStudent |-> students[attempts[i].student_id].user_id]

DifficultyOf ==
    [i \in JoinedWithQuestion |-> QuestionGet(attempts[i].question_id).difficulty]

\* teacher_dashboard 598-622: the aggregates handed to the charts and table
TeacherDashboard ==
    /\ resp' = IF ~teacher
               THEN Reply("teacher_dashboard", "GET", "redirect_login")
               ELSE [route |-> "teacher_dashboard", method |-> "GET",
                     kind |-> "dashboard",
                     grade |-> GroupPcts(GroupRows(GradeOf)),
                     class |-> GroupPcts(GroupRows(ClassOf)),
                     gender |-> GroupPcts(GroupRows(GenderOf)),
                     difficulty |-> GroupPcts(GroupRows(DifficultyOf)),
                     ts |-> LET rows == GroupRows(UserOf)
                            IN  [u \in DOMAIN rows |->
                                    [correct |-> rows[u].correct,
                                     total |-> rows[u].total,
                                     divisor |-> rows[u].total,
                                     pct |-> Round2(rows[u].correct, rows[u].total)]]]
    /\ UNCHANGED <<questions, students, quizzes, passages, attempts, session,
                   teacher, lc, gr>>

\* teacher_export_pdf 832-835: outerjoin, one row per Student
ExportRows ==
    [sid \in DOMAIN students |->
        LET idx == {i \in 1..Len(attempts) : attempts[i].student_id = sid}
        IN  [user_id |-> students[sid].user_id,
             attempts |-> OrNumber(Cardinality(idx), 0),
             correct |-> OrNumber(SumCorrect(idx), 0)]]

\* teacher_export_pdf 828-839
TeacherExportPdf ==
    /\ resp' = IF ~teacher
               THEN Reply("teacher_export_pdf", "GET", "redirect_login")
               ELSE [route |-> "teacher_export_pdf", method |-> "GET",
                     kind |-> "report", rows |-> ExportRows]
    /\ UNCHANGED <<questions, students, quizzes, passages, attempts, session,
                   teacher, lc, gr>>

(***************************************************************************)
(* Specification SpecAgg: the reports over a drawn database.  Students 1   *)
(* and 2 have up to MaxAttempts attempts between them on questions 1 (quiz *)
(* 1, easy) and 2 (quiz 2, hard); student 3 and question 3 have none.  A   *)
(* behaviour is one report requested in the drawn state.                   *)
(***************************************************************************)
AttemptKinds ==
    {[student_id |-> sid, question_id |-> qid, correct |-> c] :
        sid \in {1, 2}, qid \in {1, 2}, c \in {0, 1}}

InitAgg ==
    /\ students = (1 :> StudentRow("s1", "unknown", "6", "A", "F"))
                @@ (2 :> StudentRow("s2", "unknown", "6", "B", "M"))
                @@ (3 :> StudentRow("s3", "unknown", "7", "B", "F"))
    /\ quizzes = (1 :> [is_passage_based |-> 0, use_level_filter |-> 0])
               @@ (2 :> [is_passage_based |-> 0, use_level_filter |-> 0])
    /\ passages = <<>>
    /\ questions = <<QuestionRow(1, Null, "easy"),
                     [QuestionRow(2, Null, "hard") EXCEPT !.quiz_id = 2],
                     [QuestionRow(3, Null, "medium") EXCEPT !.quiz_id = 2]>>
    /\ \E n \in 0..MaxAttempts : \E kinds \in [1..n -> AttemptKinds] :
          attempts = [i \in 1..n |->
                         AttemptRow(i, kinds[i].student_id, kinds[i].question_id,
                                    Null, kinds[i].question_id, <<>>,
                                    kinds[i].correct)]
    /\ session = [student_id |-> 1, student_user_id |-> "s1"]
    /\ teacher = TRUE
    /\ resp = NoResp
    /\ tabs = NoTabs
    /\ lc = NoLevelCall
    /\ gr = NoGrade

NextAgg ==
    \/ resp = NoResp /\ UNCHANGED tabs /\ \E quiz_id \in 1..MaxQuizId : QuizComplete(quiz_id)
    \/ resp = NoResp /\ UNCHANGED tabs /\ TeacherDashboard
    \/ resp = NoResp /\ UNCHANGED tabs /\ TeacherExportPdf

SpecAgg == InitAgg /\ [][NextAgg]_vars
\* p hundredths is correct / total * 100 rounded to two decimals
NearestHundredth(p, correct, total) ==
    LET d == p * total - correct * 10000
    IN  2 * (IF d < 0 THEN -d ELSE d) <= total

\* the rows of one grouping are the groups that have attempts, each with the
\* rounded percentage of its own attempts
GroupingRounded(rows, key_of) ==
    /\ \A i \in 1..Len(attempts) : i \in DOMAIN key_of /\ key_of[i] \in DOMAIN rows
    /\ \A k \in DOMAIN rows :
          LET members == {i \in 1..Len(attempts) : key_of[i] = k}
              count == Cardinality(members)
              correctCount == Cardinality({i \in members : attempts[i].correct = 1})
          IN  /\ count > 0
              /\ NearestHundredth(rows[k].pct, correctCount, count)
              /\ rows[k].pct \in 0..10000
              /\ (correctCount = 3 /\ count = 4) => rows[k].pct = 7500

\* C18: for every group with at least one attempt the reported percentage is
\* correctCount / count * 100 rounded to two decimals and lies in [0, 100]
\* (3 of 4 gives 75.0): the quiz-complete score and the dashboard groupings
\* by grade, class, gender and difficulty.
PercentageRounded ==
    /\ resp.kind = "score" =>
          LET members == {i \in 1..Len(attempts) :
                             /\ attempts[i].student_id = resp.sid
                             /\ attempts[i].quiz_id = resp.quiz_id}
              count == Cardinality(members)
              correctCount == Cardinality({i \in members : attempts[i].correct = 1})
          IN  count > 0 =>
                /\ NearestHundredth(resp.run.pct, correctCount, count)
                /\ resp.run.pct \in 0..10000
                /\ (correctCount = 3 /\ count = 4) => resp.run.pct = 7500
    /\ resp.kind = "dashboard" =>
          /\ GroupingRounded(resp.grade, GradeOf)
          /\ GroupingRounded(resp.class, ClassOf)
          /\ GroupingRounded(resp.gender, GenderOf)
          /\ GroupingRounded(resp.difficulty, DifficultyOf)

PercentageRoundedWitness ==
    /\ resp.kind = "dashboard"
    /\ "6" \in DOMAIN resp.grade
    /\ resp.grade["6"].total = 4
    /\ resp.grade["6"].correct = 3
    /\ resp.grade["6"].pct = 7500
    /\ "A" \in DOMAIN resp.class
    /\ resp.class["A"].total = 3
    /\ resp.class["A"].pct = 6667

\* C19: no report divides by zero: without attempts every dashboard aggregate
\* is empty, and quiz_complete for a student and quiz without attempts takes
\* the branch that divides nothing and reports 0.
NoDivisionByZero ==
    /\ resp.kind = "score" =>
          /\ \A j \in 1..Len(resp.run.divisors) : resp.run.divisors[j] # 0
          /\ (\A i \in 1..Len(attempts) :
                  ~(/\ attempts[i].student_id = resp.sid
                    /\ attempts[i].quiz_id = resp.quiz_id))
                => (/\ resp.run.divisors = <<>>
                    /\ resp.run.total = 0
                    /\ resp.run.pct = 0)
    /\ resp.kind = "dashboard" =>
          /\ \A g \in {resp.grade, resp.class, resp.gender, resp.difficulty, resp.ts} :
                \A k \in DOMAIN g : g[k].divisor # 0
          /\ attempts = <<>> =>
                \A g \in {resp.grade, resp.class, resp.gender, resp.difficulty,
                           resp.ts} : DOMAIN g = {}

NoDivisionByZeroWitness ==
    /\ resp.kind = "score"
    /\ resp.quiz_id = 2
    /\ Len(attempts) = 2
    /\ resp.run.total = 0
    /\ resp.run.divisors = <<>>

\* C20: groups without attempts are treated alike by every report: either
\* all of them leave such a group out, or all of them report it with 0.
ZeroCountPolicyUniform ==
    resp.kind = "dashboard" =>
        LET idle == {sid \in DOMAIN students :
                        \A i \in 1..Len(attempts) : attempts[i].student_id # sid}
            dashboardOmits ==
                \E sid \in idle : students[sid].user_id \notin DOMAIN resp.ts
            exportReports ==
                \E sid \in idle : ExportRows[sid].attempts = 0
            scoreReports ==
                \E sid \in idle, quiz_id \in DOMAIN quizzes :
                    QuizCompleteRun(sid, quiz_id).pct = 0
        IN  ~(dashboardOmits /\ (exportReports \/ scoreReports))
(***************************************************************************)
(* Specification SpecRound: one placement submission.  The database holds  *)
(* up to MaxRoundQid mcq questions with key "a"; the form answers any      *)
(* subset of the ids 1..MaxRoundQid, each with the key, with its upper     *)
(* case or with another option.                                            *)
(***************************************************************************)
RoundForms ==
    {[bad_key |-> FALSE, answers |-> a] :
        a \in UNION {[ids -> {<<"a">>, <<"b">>}] : ids \in SUBSET (1..MaxRoundQid)}}

InitRound ==
    /\ \E level \in Levels : students = (1 :> StudentRow("s1", level, "6", "A", "F"))
    /\ quizzes = (1 :> [is_passage_based |-> 0, use_level_filter |-> 0])
    /\ passages = <<>>
    /\ \E n \in 0..MaxRoundQid :
          questions = [i \in 1..n |-> QuestionRow(i, Null, "easy")]
    /\ attempts = <<>>
    /\ session = [student_id |-> 1, student_user_id |-> "s1"]
    /\ teacher = FALSE
    /\ resp = NoResp
    /\ tabs = NoTabs
    /\ lc = NoLevelCall
    /\ gr = NoGrade

NextRound == resp = NoResp /\ UNCHANGED tabs /\ \E form \in RoundForms : PlacementPost(form)

SpecRound == InitRound /\ [][NextRound]_vars

\* C17: the level a placement submission stores is assign_level_by_score of
\* (score, total), total the number of responses graded (those of existing
\* questions) and score the number of them graded correct; 5 graded with 4
\* correct stores "advanced".
PlacementStoresLevel ==
    resp.kind = "placement_complete" =>
        LET graded == {qid \in DOMAIN resp.answers :
                          \E i \in 1..Len(questions) : questions[i].id = qid}
            right == {qid \in graded :
                         \E i \in 1..Len(questions) :
                             /\ questions[i].id = qid
                             /\ TrimLower(resp.answers[qid]) = TrimLower(questions[i].correct)}
            total == Cardinality(graded)
            score == Cardinality(right)
            stored == students[session.student_id].level
        IN  /\ stored = assign_level_by_score(score, total)
            /\ stored = (IF total = 0 THEN "unknown"
                         ELSE IF score * 100 >= 80 * total THEN "advanced"
                         ELSE IF score * 100 >= 40 * total THEN "intermediate"
                         ELSE "beginner")
            /\ (total = 5 /\ score = 4) => stored = "advanced"

PlacementStoresLevelWitness ==
    /\ resp.kind = "placement_complete"
    /\ Len(questions) = 5
    /\ DOMAIN resp.answers = 1..6
    /\ resp.graded = 5
    /\ resp.score = 4
    /\ students[1].level = "advanced"
(***************************************************************************)
(* quiz_passage (440-483), POST.  form.practice says that the field        *)
(* practice is "1"; form.answers maps the ids n of the fields q_n sent to  *)
(* their values; form.bad_time is the set of ids n whose field t_n is not  *)
(* a number, on which float() raises (447).  A request that raises leaves  *)
(* the rows it added uncommitted.  A new row takes the id after the        *)
(* greatest id of its table.                                               *)
(***************************************************************************)
NextId(table) == IF table = <<>> THEN 1 ELSE table[Len(table)].id + 1

NextKey(table) ==
    IF DOMAIN table = {} THEN 1
    ELSE (CHOOSE k \in DOMAIN table : \A j \in DOMAIN table : j <= k) + 1

MutNewAttemptsSkipBlank(first_id, student_id, quiz_id, passage_id, display, answers) ==
    LET answered == SelectSeq(display, LAMBDA q : q.id \in DOMAIN answers)
    IN  [j \in 1..Len(answered) |->
            AttemptRow(first_id + j - 1, student_id, quiz_id, passage_id,
                       answered[j].id, Strip(FormGet(answers[answered[j].id])),
                       QuizCorrectFlag(answered[j], answers[answered[j].id]))]

\* 444-458: the Attempt rows of one submitted page, one per displayed question
NewAttempts(first_id, student_id, quiz_id, passage_id, display, answers) ==
    [j \in 1..Len(display) |->
        LET q == display[j]
            value == IF q.id \in DOMAIN answers THEN answers[q.id] ELSE Absent
        IN  AttemptRow(first_id + j - 1, student_id, quiz_id, passage_id, q.id,
                       Strip(FormGet(value)), QuizCorrectFlag(q, value))]

MutAfterPagePastTheEnd(quiz_id, p_index, practice) ==
    LET quiz == quizzes[quiz_id]
        count == IF quiz.is_passage_based # 0
                 THEN Len(SelectSeq(passages, LAMBDA x : x.quiz_id = quiz_id))
                 ELSE Len(Pages(SelectSeq(questions, LAMBDA q : q.quiz_id = quiz_id)))
    IN  IF p_index + 1 > count THEN "redirect_complete"
        ELSE IF practice THEN "practice_notice"
        ELSE "redirect_next"

\* 461-483: where the submitted page leads
AfterPage(quiz_id, p_index, practice) ==
    LET quiz == quizzes[quiz_id]
        count == IF quiz.is_passage_based # 0
                 THEN Len(SelectSeq(passages, LAMBDA x : x.quiz_id = quiz_id))
                 ELSE Len(Pages(SelectSeq(questions, LAMBDA q : q.quiz_id = quiz_id)))
    IN  IF p_index + 1 >= count THEN "redirect_complete"
        ELSE IF practice THEN "practice_notice"
        ELSE "redirect_next"

MutStoredAfterPagePracticeToo(practice, rows) == attempts \o rows

\* 456-459: the Attempts are added unless the page was submitted as practice
StoredAfterPage(practice, rows) == IF practice THEN attempts ELSE attempts \o rows

QuizPassagePost(quiz_id, p_index, form) ==
    LET sel == QuizPassageSelect(quiz_id, p_index)
    IN  /\ IF sel.kind # "quiz_page"
           THEN /\ resp' = [sel EXCEPT !.method = "POST"]
                /\ UNCHANGED attempts
           ELSE LET display == sel.display
                    ps == SelectSeq(passages, LAMBDA x : x.quiz_id = quiz_id)
                    passage_id == IF quizzes[quiz_id].is_passage_based # 0
                                  THEN ps[p_index + 1].id ELSE Null
                    raises ==
                        \/ \E j \in 1..Len(display) : display[j].id \in form.bad_time
                        \/ /\ display # <<>>
                           /\ ~form.practice
                           /\ session.student_id \notin DOMAIN students
                    rows == NewAttempts(NextId(attempts), session.student_id,
                                        quiz_id, passage_id, display, form.answers)
                IN  IF raises
                    THEN /\ resp' = Reply("quiz_passage", "POST", "error")
                         /\ UNCHANGED attempts
                    ELSE /\ attempts' = StoredAfterPage(form.practice, rows)
                         /\ resp' = [route |-> "quiz_passage", method |-> "POST",
                                     kind |-> AfterPage(quiz_id, p_index, form.practice),
                                     quiz_id |-> quiz_id, p_index |-> p_index,
                                     practice |-> form.practice,
                                     display |-> display,
                                     answers |-> form.answers]
        /\ UNCHANGED <<questions, students, quizzes, passages, session, teacher,
                       lc, gr>>

(***************************************************************************)
(* Accounts.  The student uses one browser (session) and the teacher       *)
(* another (teacher).  form.password says that a password was typed        *)
(* (signup) or that it matches the stored hash (login).                    *)
(***************************************************************************)
MutDefaultLevelBeginner == "beginner"

\* 44: level = db.Column(db.String(50), default="unknown")
DefaultLevel == "unknown"

\* signup 227-243, POST
Signup(form) ==
    /\ IF form.user_id = "" \/ ~form.password
       THEN /\ resp' = Reply("signup", "POST", "required")
            /\ UNCHANGED students
       ELSE IF \E sid \in DOMAIN students : students[sid].user_id = form.user_id
       THEN /\ resp' = Reply("signup", "POST", "exists")
            /\ UNCHANGED students
       ELSE /\ students' = students @@
                   (NextKey(students) :>
                       [user_id |-> form.user_id, level |-> DefaultLevel,
                        grade |-> form.grade, class_section |-> form.class_section,
                        gender |-> form.gender])
            /\ resp' = Reply("signup", "POST", "redirect_login")
    /\ UNCHANGED <<questions, quizzes, passages, attempts, session, teacher,
                   lc, gr>>

\* login 269-280, POST with role student
Login(form) ==
    /\ IF form.password
          /\ \E sid \in DOMAIN students : students[sid].user_id = form.user_id
       THEN /\ session' = [student_id |->
                    CHOOSE sid \in DOMAIN students :
                        students[sid].user_id = form.user_id,
                            student_user_id |-> form.user_id]
            /\ resp' = Reply("login", "POST", "redirect_dashboard")
       ELSE /\ resp' = Reply("login", "POST", "invalid")
            /\ UNCHANGED session
    /\ UNCHANGED <<questions, students, quizzes, passages, attempts, teacher,
                   lc, gr>>

\* login 263-268, POST with role teacher; passkey says that it matches
TeacherLogin(passkey) ==
    /\ IF passkey
       THEN /\ teacher' = TRUE
            /\ resp' = Reply("login", "POST", "redirect_teacher_dashboard")
       ELSE /\ resp' = Reply("login", "POST", "invalid")
            /\ UNCHANGED teacher
    /\ UNCHANGED <<questions, students, quizzes, passages, attempts, session,
                   lc, gr>>

\* logout 305-307 in the student's browser
Logout ==
    /\ session' = NoSession
    /\ resp' = Reply("logout", "GET", "redirect_home")
    /\ UNCHANGED <<questions, students, quizzes, passages, attempts, teacher,
                   lc, gr>>

\* logout 305-307 in the teacher's browser
TeacherLogout ==
    /\ teacher' = FALSE
    /\ resp' = Reply("logout", "GET", "redirect_home")
    /\ UNCHANGED <<questions, students, quizzes, passages, attempts, session,
                   lc, gr>>
(***************************************************************************)
(* The teacher's operations.  A Quiz row carries its title here, which     *)
(* seed looks up.                                                          *)
(***************************************************************************)
\* teacher_create_quiz 667-681
TeacherCreateQuiz(method, form) ==
    /\ IF ~teacher
       THEN /\ resp' = Reply("teacher_create_quiz", method, "redirect_login")
            /\ UNCHANGED quizzes
       ELSE IF method # "POST"
       THEN /\ resp' = Reply("teacher_create_quiz", method, "form")
            /\ UNCHANGED quizzes
       ELSE /\ quizzes' = quizzes @@
                   (NextKey(quizzes) :>
                       [title |-> form.title,
                        is_passage_based |-> IF form.is_passage_based = "1" THEN 1 ELSE 0,
                        use_level_filter |-> IF form.use_level_filter = "1" THEN 1 ELSE 0])
            /\ resp' = Reply("teacher_create_quiz", method,
                             IF form.is_passage_based = "1"
                             THEN "redirect_add_passage" ELSE "redirect_add_regular")
    /\ UNCHANGED <<questions, students, passages, attempts, session, teacher,
                   lc, gr>>

\* teacher_add_passage 695-707
TeacherAddPassage(quiz_id, method) ==
    /\ IF ~teacher
       THEN /\ resp' = Reply("teacher_add_passage", method, "redirect_login")
            /\ UNCHANGED passages
       ELSE IF quiz_id \notin DOMAIN quizzes
       THEN /\ resp' = Reply("teacher_add_passage", method, "quiz_not_found")
            /\ UNCHANGED passages
       ELSE IF method # "POST"
       THEN /\ resp' = Reply("teacher_add_passage", method, "form")
            /\ UNCHANGED passages
       ELSE /\ passages' = Append(passages, [id |-> NextId(passages), quiz_id |-> quiz_id])
            /\ resp' = Reply("teacher_add_passage", method, "redirect_add_question")
    /\ UNCHANGED <<questions, students, quizzes, attempts, session, teacher,
                   lc, gr>>

\* request.form.get(name) or None
OrNone(value) == IF value = <<>> THEN Absent ELSE value

\* 727-735, 761-769: the Question row built from the fields of the form
QuestionFromForm(id, quiz_id, passage_id, form) ==
    [id |-> id, quiz_id |-> quiz_id, passage_id |-> passage_id,
     qtype |-> IF form.qtype = None THEN "mcq" ELSE form.qtype,
     options |-> [i \in 1..4 |-> OrNone(form.options[i])],
     correct |-> Strip(FormGet(form.correct)),
     difficulty |-> IF form.difficulty = None THEN "medium" ELSE form.difficulty]

\* teacher_add_question 719-737
TeacherAddQuestion(passage_id, method, form) ==
    /\ IF ~teacher
       THEN /\ resp' = Reply("teacher_add_question", method, "redirect_login")
            /\ UNCHANGED questions
       ELSE IF \A i \in 1..Len(passages) : passages[i].id # passage_id
       THEN /\ resp' = Reply("teacher_add_question", method, "passage_not_found")
            /\ UNCHANGED questions
       ELSE IF method # "POST"
       THEN /\ resp' = Reply("teacher_add_question", method, "form")
            /\ UNCHANGED questions
       ELSE LET p == SelectSeq(passages, LAMBDA x : x.id = passage_id)[1]
            IN  /\ questions' = Append(questions,
                        QuestionFromForm(NextId(questions), p.quiz_id, passage_id, form))
                /\ resp' = Reply("teacher_add_question", method, "question_added")
    /\ UNCHANGED <<students, quizzes, passages, attempts, session, teacher,
                   lc, gr>>

\* teacher_add_regular_questions 753-771
TeacherAddRegularQuestions(quiz_id, method, form) ==
    /\ IF ~teacher
       THEN /\ resp' = Reply("teacher_add_regular_questions", method, "redirect_login")
            /\ UNCHANGED questions
       ELSE IF quiz_id \notin DOMAIN quizzes
       THEN /\ resp' = Reply("teacher_add_regular_questions", method, "quiz_not_found")
            /\ UNCHANGED questions
       ELSE IF method # "POST"
       THEN /\ resp' = Reply("teacher_add_regular_questions", method, "form")
            /\ UNCHANGED questions
       ELSE /\ questions' = Append(questions,
                    QuestionFromForm(NextId(questions), quiz_id, Null, form))
            /\ resp' = Reply("teacher_add_regular_questions", method, "question_added")
    /\ UNCHANGED <<students, quizzes, passages, attempts, session, teacher,
                   lc, gr>>

\* Restrict(f, S): the function f without the keys outside S
Restrict(f, S) == [k \in S |-> f[k]]

MutDeleteEveryAttempt(quiz_id) == <<>>

\* 819: Attempt.query.filter_by(quiz_id=quiz_id).delete()
AttemptsWithoutQuiz(quiz_id) == SelectSeq(attempts, LAMBDA a : a.quiz_id # quiz_id)

\* teacher_delete_quiz 811-825
TeacherDeleteQuiz(quiz_id, method) ==
    /\ IF ~teacher
       THEN /\ resp' = Reply("teacher_delete_quiz", method, "redirect_login")
            /\ UNCHANGED <<questions, quizzes, passages, attempts>>
       ELSE IF quiz_id \notin DOMAIN quizzes
       THEN /\ resp' = Reply("teacher_delete_quiz", method, "quiz_not_found")
            /\ UNCHANGED <<questions, quizzes, passages, attempts>>
       ELSE IF method # "POST"
       THEN /\ resp' = Reply("teacher_delete_quiz", method, "confirm")
            /\ UNCHANGED <<questions, quizzes, passages, attempts>>
       ELSE LET pids == {passages[i].id : i \in
                            {i \in 1..Len(passages) : passages[i].quiz_id = quiz_id}}
            IN  /\ attempts' = AttemptsWithoutQuiz(quiz_id)
                /\ questions' = SelectSeq(questions, LAMBDA q :
                        /\ q.passage_id \notin pids
                        /\ ~(q.quiz_id = quiz_id /\ q.passage_id = Null))
                /\ passages' = SelectSeq(passages, LAMBDA x : x.quiz_id # quiz_id)
                /\ quizzes' = Restrict(quizzes, DOMAIN quizzes \ {quiz_id})
                /\ resp' = [route |-> "teacher_delete_quiz", method |-> method,
                            kind |-> "redirect_dashboard", quiz_id |-> quiz_id]
    /\ UNCHANGED <<students, session, teacher, lc, gr>>

\* teacher_reset_db 849-857
TeacherResetDb(confirm) ==
    /\ IF ~teacher
       THEN /\ resp' = Reply("teacher_reset_db", "POST", "redirect_login")
            /\ UNCHANGED <<questions, students, quizzes, passages, attempts>>
       ELSE IF confirm # "YES"
       THEN /\ resp' = Reply("teacher_reset_db", "POST", "redirect_dashboard")
            /\ UNCHANGED <<questions, students, quizzes, passages, attempts>>
       ELSE /\ attempts' = <<>>
            /\ questions' = <<>>
            /\ passages' = <<>>
            /\ quizzes' = <<>>
            /\ students' = <<>>
            /\ resp' = Reply("teacher_reset_db", "POST", "reset_complete")
    /\ UNCHANGED <<session, teacher, lc, gr>>
\* seed 863-868: the six sample students
SeedStudents ==
    [i \in 1..6 |->
        [user_id |-> <<"stud1", "stud2", "stud3", "stud4", "stud5", "stud6">>[i],
         level |-> DefaultLevel,
         grade |-> <<"7", "8", "6", "7", "8", "6">>[i],
         class_section |-> IF i % 2 = 0 THEN "1" ELSE "2",
         gender |-> IF i % 2 = 0 THEN "Male" ELSE "Female"]]

\* seed 875-880, 887: a sample question
SeedQuestion(id, quiz_id, passage_id, qtype, options, correct, difficulty) ==
    [id |-> id, quiz_id |-> quiz_id, passage_id |-> passage_id, qtype |-> qtype,
     options |-> options, correct |-> correct, difficulty |-> difficulty]

SeedPrimeKey ==
    <<"d", "i", "v", "i", "s", "i", "b", "l", "e", " ", "o", "n", "l",
    "y", " ", "b", "y", " ", "1", " ", "a", "n", "d", " ", "i", "t", "s",
    "e", "l", "f">>

SeedWaterOptions ==
    <<<<"W", "a", "t", "e", "r">>,
      <<"O", "x", "y", "g", "e", "n">>,
      <<"H", "y", "d", "r", "o", "g", "e", "n">>,
      <<"H", "e", "l", "i", "u", "m">>>>

\* seed 860-888
Seed ==
    LET first == DOMAIN quizzes = {}
        qz == NextKey(quizzes)
        quizzes1 == IF first
                    THEN quizzes @@ (qz :> [title |-> "Sample Passage Quiz",
                                            is_passage_based |-> 1,
                                            use_level_filter |-> 0])
                    ELSE quizzes
        p == NextId(passages)
        q == NextId(questions)
        questions1 ==
            IF first
            THEN questions \o
                 <<SeedQuestion(q, qz, p, "mcq",
                                <<<<"3">>, <<"4">>, <<"5">>, <<"6">>>>, <<"4">>, "easy"),
                   SeedQuestion(q + 1, qz, p, "mcq",
                                <<<<"3", "0">>, <<"2", "6">>, <<"5", "6">>, <<"4", "0">>>>,
                                <<"3", "0">>, "easy"),
                   SeedQuestion(q + 2, qz, p, "subjective", NoOptions, <<"3">>, "medium"),
                   SeedQuestion(q + 3, qz, p, "subjective", NoOptions, SeedPrimeKey,
                                "hard")>>
            ELSE questions
        regular == \A k \in DOMAIN quizzes1 : quizzes1[k].title # "Regular Quiz"
        qz2 == NextKey(quizzes1)
    IN  /\ students' = IF DOMAIN students = {} THEN SeedStudents ELSE students
        /\ passages' = IF first THEN Append(passages, [id |-> p, quiz_id |-> qz])
                       ELSE passages
        /\ quizzes' = IF regular
                      THEN quizzes1 @@ (qz2 :> [title |-> "Regular Quiz",
                                                is_passage_based |-> 0,
                                                use_level_filter |-> 0])
                      ELSE quizzes1
        /\ questions' = IF regular
                        THEN Append(questions1,
                                 SeedQuestion(NextId(questions1), qz2, Null, "mcq",
                                     SeedWaterOptions, SeedWaterOptions[1], "easy"))
                        ELSE questions1
        /\ resp' = Reply("seed", "GET", "seeded")
        /\ UNCHANGED <<attempts, session, teacher, lc, gr>>
(***************************************************************************)
(* Specification SpecOps: every operation, once, on a drawn database.  The *)
(* database is empty, or holds student 1 (any level) and possibly student  *)
(* 2, the regular quiz 1 and the passage-based quiz 2 with its passage 1,  *)
(* up to two questions (question 1 in quiz 1, question 2 in passage 1)     *)
(* and up to MaxOpsAttempts attempts of student 1 on them, each graded as  *)
(* quiz_passage grades it.  The student is logged in or not, and so is the *)
(* teacher.  A behaviour is one request handled in the drawn state.        *)
(***************************************************************************)
OpsQuestions(n, qtype) ==
    SubSeq(<<[QuestionRow(1, Null, "easy") EXCEPT !.qtype = qtype],
             [QuestionRow(2, 1, "medium") EXCEPT !.quiz_id = 2]>>, 1, n)

OpsAttempt(id, q, answer) ==
    AttemptRow(id, 1, q.quiz_id, q.passage_id, q.id, answer, QuizCorrectFlag(q, answer))

InitOps ==
    /\ \/ /\ students = <<>>
          /\ quizzes = <<>>
          /\ passages = <<>>
          /\ questions = <<>>
          /\ attempts = <<>>
       \/ /\ \E level \in Levels, two \in BOOLEAN :
                students = IF two
                           THEN <<StudentRow("s1", level, "6", "A", "F"),
                                  StudentRow("s2", DefaultLevel, "7", "B", "M")>>
                           ELSE <<StudentRow("s1", level, "6", "A", "F")>>
          /\ quizzes = <<[title |-> "Quiz", is_passage_based |-> 0, use_level_filter |-> 0],
                         [title |-> "Quiz", is_passage_based |-> 1, use_level_filter |-> 0]>>
          /\ passages = <<[id |-> 1, quiz_id |-> 2]>>
          /\ \E n \in 0..2, qtype \in {"mcq", "subjective"} :
                /\ questions = OpsQuestions(n, qtype)
                /\ \E m \in 0..MaxOpsAttempts :
                      \E qs \in [1..m -> 1..n], as \in [1..m -> {<<>>, <<"a">>}] :
                          attempts = [i \in 1..m |->
                              OpsAttempt(i, OpsQuestions(n, qtype)[qs[i]], as[i])]
    /\ session \in {NoSession, [student_id |-> 1, student_user_id |-> "s1"]}
    /\ teacher \in BOOLEAN
    /\ resp = NoResp
    /\ tabs = NoTabs
    /\ lc = NoLevelCall
    /\ gr = NoGrade

Methods == {"GET", "POST"}

SignupForms ==
    {[user_id |-> u, password |-> pw, grade |-> "6", class_section |-> "A",
      gender |-> "F"] : u \in {"", "s1", "s3"}, pw \in BOOLEAN}

LoginForms == {[user_id |-> u, password |-> pw] : u \in {"s1", "s3"}, pw \in BOOLEAN}

QuizForms ==
    {[title |-> t, is_passage_based |-> pb, use_level_filter |-> ulf] :
        t \in {"Quiz", "Regular Quiz"}, pb \in {"1", None}, ulf \in {"1", None}}

QuestionForms ==
    {[qtype |-> qtype, options |-> options, correct |-> correct, difficulty |-> d] :
        qtype \in {"subjective", None},
        options \in {<<<<>>, <<>>, <<>>, <<>>>>, <<<<"a">>, <<"b">>, <<>>, Absent>>},
        correct \in {Absent, <<" ">>, <<"a">>, <<" ", "A">>, <<"b", "b">>},
        d \in {"hard", None}}

\* the ids a request may name: those of the drawn rows and one beyond
OpsQuizIds == {1, 2, 3}

OpsPassageIds == {1, 2}

OpsPageIndexes == {0, 1}

OpsAnswers == UNION {[ids -> FormAnswers] : ids \in SUBSET {1, 2}}

OpsPlacementForms ==
    {[bad_key |-> b, answers |-> a] : b \in BOOLEAN, a \in OpsAnswers}

QuizPageForms ==
    {[practice |-> practice, answers |-> a, bad_time |-> bad] :
        practice \in BOOLEAN, a \in OpsAnswers, bad \in {{}, {1}}}

NextOps ==
    \/ resp = NoResp /\ UNCHANGED tabs /\ \E form \in SignupForms : Signup(form)
    \/ resp = NoResp /\ UNCHANGED tabs /\ \E form \in LoginForms : Login(form)
    \/ resp = NoResp /\ UNCHANGED tabs /\ \E passkey \in BOOLEAN : TeacherLogin(passkey)
    \/ resp = NoResp /\ UNCHANGED tabs /\ Logout
    \/ resp = NoResp /\ UNCHANGED tabs /\ TeacherLogout
    \/ resp = NoResp /\ UNCHANGED tabs /\ PlacementGet
    \/ resp = NoResp /\ UNCHANGED tabs /\ \E form \in OpsPlacementForms : PlacementPost(form)
    \/ resp = NoResp /\ UNCHANGED tabs /\ \E quiz_id \in OpsQuizIds, p_index \in OpsPageIndexes :
                            QuizPassageGet(quiz_id, p_index)
    \/ resp = NoResp /\ UNCHANGED tabs /\ \E quiz_id \in OpsQuizIds, p_index \in OpsPageIndexes,
                               form \in QuizPageForms :
                            QuizPassagePost(quiz_id, p_index, form)
    \/ resp = NoResp /\ UNCHANGED tabs /\ \E quiz_id \in OpsQuizIds : QuizComplete(quiz_id)
    \/ resp = NoResp /\ UNCHANGED tabs /\ TeacherDashboard
    \/ resp = NoResp /\ UNCHANGED tabs /\ TeacherExportPdf
    \/ resp = NoResp /\ UNCHANGED tabs /\ \E method \in Methods, form \in QuizForms :
                            TeacherCreateQuiz(method, form)
    \/ resp = NoResp /\ UNCHANGED tabs /\ \E quiz_id \in OpsQuizIds, method \in Methods :
                            TeacherAddPassage(quiz_id, method)
    \/ resp = NoResp /\ UNCHANGED tabs /\ \E passage_id \in OpsPassageIds, method \in Methods,
                               form \in QuestionForms :
                            TeacherAddQuestion(passage_id, method, form)
    \/ resp = NoResp /\ UNCHANGED tabs /\ \E quiz_id \in OpsQuizIds, method \in Methods,
                               form \in QuestionForms :
                            TeacherAddRegularQuestions(quiz_id, method, form)
    \/ resp = NoResp /\ UNCHANGED tabs /\ \E quiz_id \in OpsQuizIds, method \in Methods :
                            TeacherDeleteQuiz(quiz_id, method)
    \/ resp = NoResp /\ UNCHANGED tabs /\ \E confirm \in {"YES", "yes", None} : TeacherResetDb(confirm)
    \/ resp = NoResp /\ UNCHANGED tabs /\ Seed

SpecOps == InitOps /\ [][NextOps]_vars
\* C13: every stored Question has a non-empty answer key, and every stored
\* mcq question a key equal, case-insensitively, to one of its options.
QuestionsWellKeyed ==
    \A i \in 1..Len(questions) :
        /\ questions[i].correct # <<>>
        /\ questions[i].qtype = "mcq" =>
              KeyListed(questions[i].correct, questions[i].options)

\* the step is a completed bulk reset
ResetStep == resp'.route = "teacher_reset_db" /\ resp'.kind = "reset_complete"

\* the Attempt row a is in the table after the step, as it was
Kept(a) == \E j \in 1..Len(attempts') : attempts'[j] = a

\* no row after the step has the id of a row before it and other fields
FieldsUnchanged ==
    \A i \in 1..Len(attempts), j \in 1..Len(attempts') :
        attempts'[j].id = attempts[i].id => attempts'[j] = attempts[i]

\* C14 as stated: no operation changes a field of an Attempt, and none but
\* the bulk reset removes one.
AttemptsAppendOnly ==
    [][/\ FieldsUnchanged
       /\ \A i \in 1..Len(attempts) : Kept(attempts[i]) \/ ResetStep]_vars

\* C14, amended: no operation changes a field of an Attempt; an Attempt is
\* removed only by the bulk reset or by a teacher's POST to teacher_delete_quiz
\* for the quiz of the Attempt, which leaves the attempts of other quizzes.
AttemptsRemovedWithQuizOnly ==
    [][/\ FieldsUnchanged
       /\ \A i \in 1..Len(attempts) :
             \/ Kept(attempts[i])
             \/ ResetStep
             \/ /\ resp'.route = "teacher_delete_quiz"
                /\ resp'.method = "POST"
                /\ resp'.kind = "redirect_dashboard"
                /\ resp'.quiz_id = attempts[i].quiz_id]_vars

AttemptsRemovedWitness ==
    /\ resp.route = "teacher_delete_quiz"
    /\ resp.kind = "redirect_dashboard"
    /\ resp.quiz_id = 2
    /\ Len(attempts) = 1
    /\ attempts[1].id = 2
    /\ attempts[1].quiz_id = 1

\* the step is a quiz page submitted and handled to the end
PageSubmitted ==
    /\ resp'.route = "quiz_passage"
    /\ resp'.method = "POST"
    /\ resp'.kind \in {"redirect_complete", "redirect_next", "practice_notice"}

\* the step appended one Attempt per displayed question, graded as stored
OnePerDisplayed ==
    /\ Len(attempts') = Len(attempts) + Len(resp'.display)
    /\ SubSeq(attempts', 1, Len(attempts)) = attempts
    /\ \A j \in 1..Len(resp'.display) :
          LET a == attempts'[Len(attempts) + j]
              q == resp'.display[j]
          IN  /\ a.question_id = q.id
              /\ a.student_id = session.student_id
              /\ a.quiz_id = resp'.quiz_id
              /\ a.correct = QuizCorrectFlag(q, a.student_answer)
              /\ q.qtype = "mcq" =>
                    ((a.correct = 1) <=>
                        TrimLower(a.student_answer) = TrimLower(q.correct))

LevelChangesInPlacementOnly ==
    [][/\ \A sid \in DOMAIN students' : students'[sid].level \in Levels
       /\ \A sid \in DOMAIN students' \ DOMAIN students :
             students'[sid].level = "unknown"
       /\ \A sid \in DOMAIN students' \cap DOMAIN students :
             students'[sid].level # students[sid].level =>
                /\ resp'.route = "placement"
                /\ resp'.method = "POST"
                /\ resp'.kind = "placement_complete"
                /\ sid = session.student_id
                /\ students'[sid].level = resp'.level
                /\ resp'.level =
                      (IF resp'.graded = 0 THEN "unknown"
                       ELSE IF resp'.score * 100 >= 80 * resp'.graded THEN "advanced"
                       ELSE IF resp'.score * 100 >= 40 * resp'.graded THEN "intermediate"
                       ELSE "beginner")]_vars

LevelChangesWitness ==
    /\ resp.route = "placement"
    /\ resp.kind = "placement_complete"
    /\ resp.graded = 2
    /\ resp.score = 1
    /\ students[1].level = "intermediate"
    /\ 2 \in DOMAIN students
    /\ students[2].level = "unknown"

StudentDashboard ==
    /\ resp' = IF session.student_id = Null
               THEN Reply("student_dashboard", "GET", "redirect_login")
               ELSE IF session.student_id \notin DOMAIN students
               THEN Reply("student_dashboard", "GET", "error")
               ELSE [route |-> "student_dashboard", method |-> "GET",
                     kind |-> "welcome",
                     user_id |-> students[session.student_id].user_id,
                     level |-> students[session.student_id].level]
    /\ UNCHANGED <<questions, students, quizzes, passages, attempts, session,
                   teacher, lc, gr>>

\* 379-391: the placement form rendered for the questions chosen
PlacementForm(chosen) == [kind |-> "placement_form", chosen |-> chosen]

\* 484-576: the quiz page rendered, with the timer script's timeLeft (514)
\* when quiz.timer_seconds is positive (511)
QuizForm(quiz_id, p_index, display, timer_seconds) ==
    [kind |-> "quiz_page", quiz_id |-> quiz_id, p_index |-> p_index,
     display |-> display, timer |-> timer_seconds > 0,
     timeLeft |-> timer_seconds, expired |-> FALSE]

\* the ids of the questions of a rendered form
FormIds(qs) == {qs[j].id : j \in 1..Len(qs)}

\* the fields q_<id> a browser sends for a rendered form: one per radio group
\* in which an option was chosen
BrowserAnswers(qs) == UNION {[ids -> {<<"a">>}] : ids \in SUBSET FormIds(qs)}

OpenPlacement ==
    /\ PlacementGet
    /\ tabs' = IF resp'.kind = "placement_form"
               THEN [tabs EXCEPT !.placement = PlacementForm(resp'.chosen)]
               ELSE tabs

SubmitPlacement ==
    /\ tabs.placement.kind = "placement_form"
    /\ \E answers \in BrowserAnswers(tabs.placement.chosen) :
          PlacementPost([bad_key |-> FALSE, answers |-> answers])
    /\ UNCHANGED tabs

OpenQuizPage(quiz_id, p_index) ==
    /\ QuizPassageGet(quiz_id, p_index)
    /\ tabs' = IF resp'.kind = "quiz_page"
               THEN [tabs EXCEPT !.quiz =
                        QuizForm(quiz_id, p_index, resp'.display,
                                 quizzes[quiz_id].timer_seconds)]
               ELSE tabs

\* the Submit button (practice '0') or the Practice Mode button (501)
SubmitPage(practice) ==
    /\ tabs.quiz.kind = "quiz_page"
    /\ \E answers \in BrowserAnswers(tabs.quiz.display) :
          QuizPassagePost(tabs.quiz.quiz_id, tabs.quiz.p_index,
                          [practice |-> practice, answers |-> answers,
                           bad_time |-> {}])
    /\ UNCHANGED tabs

\* 517-533 updateTimer, a second later: timeLeft -= 1
Tick ==
    /\ tabs.quiz.kind = "quiz_page"
    /\ tabs.quiz.timer
    /\ tabs.quiz.timeLeft > 0
    /\ tabs' = [tabs EXCEPT !.quiz.timeLeft = @ - 1]
    /\ UNCHANGED <<questions, students, quizzes, passages, attempts, session,
                   teacher, resp, lc, gr>>

\* 525-531 updateTimer at timeLeft <= 0: practice is set to '0' and the form
\* is submitted with what was entered
TimerExpires ==
    /\ tabs.quiz.kind = "quiz_page"
    /\ tabs.quiz.timer
    /\ tabs.quiz.timeLeft <= 0
    /\ ~tabs.quiz.expired
    /\ \E answers \in BrowserAnswers(tabs.quiz.display) :
          QuizPassagePost(tabs.quiz.quiz_id, tabs.quiz.p_index,
                          [practice |-> FALSE, answers |-> answers,
                           bad_time |-> {}])
    /\ tabs' = [tabs EXCEPT !.quiz.expired = TRUE]

(***************************************************************************)
(* Specification SpecBrowser: student s1 (beginner) is logged in and works *)
(* with the forms in the browser while the teacher, logged in, adds        *)
(* questions: any number of requests in any order.  Quiz 1 is regular      *)
(* with the level filter, an easy and a hard question, and a timer of      *)
(* 0..MaxTimer seconds.  The teacher adds hard questions up to             *)
(* MaxBrowserQuestions in the table, and pages are submitted while fewer   *)
(* than MaxBrowserAttempts Attempts are stored.                            *)
(***************************************************************************)
MaxTimer == 1

MaxBrowserQuestions == 3

MaxBrowserAttempts == 2

InitBrowser ==
    /\ students = <<StudentRow("s1", "beginner", "6", "A", "F")>>
    /\ \E t \in 0..MaxTimer :
          quizzes = <<[title |-> "Quiz", is_passage_based |-> 0,
                       use_level_filter |-> 1, timer_seconds |-> t]>>
    /\ passages = <<>>
    /\ questions = <<QuestionRow(1, Null, "easy"), QuestionRow(2, Null, "hard")>>
    /\ attempts = <<>>
    /\ session = [student_id |-> 1, student_user_id |-> "s1"]
    /\ teacher = TRUE
    /\ resp = NoResp
    /\ tabs = NoTabs
    /\ lc = NoLevelCall
    /\ gr = NoGrade

BrowserQuestionForm ==
    [qtype |-> None, options |-> <<<<"a">>, <<"b">>, <<>>, Absent>>,
     correct |-> <<"a">>, difficulty |-> "hard"]

NextBrowser ==
    \/ OpenPlacement
    \/ SubmitPlacement
    \/ \E p_index \in {0, 1} : OpenQuizPage(1, p_index)
    \/ Len(attempts) < MaxBrowserAttempts /\ \E practice \in BOOLEAN : SubmitPage(practice)
    \/ Tick
    \/ Len(attempts) < MaxBrowserAttempts /\ TimerExpires
    \/ /\ Len(questions) < MaxBrowserQuestions
       /\ UNCHANGED tabs
       /\ TeacherAddRegularQuestions(1, "POST", BrowserQuestionForm)

SpecBrowser == InitBrowser /\ [][NextBrowser]_vars

\* C23: the questions graded in a placement submission are exactly those of
\* the round that was presented: every graded response is for a question of
\* the form, and every question of the form counts in the total.
PlacementGradesSelected ==
    [][(/\ tabs.placement.kind = "placement_form"
        /\ resp'.route = "placement"
        /\ resp'.kind = "placement_complete") =>
           /\ {qid \in DOMAIN resp'.answers : QuestionExists(qid)}
                 \subseteq FormIds(tabs.placement.chosen)
           /\ resp'.graded = Len(tabs.placement.chosen)]_vars

\* C24: every Attempt recorded by a quiz-page submission is for a question
\* displayed on the page that was submitted, also when a placement changed
\* the student's level or the teacher added questions after the page was
\* rendered.
AttemptsForDisplayedOnly ==
    [][(tabs.quiz.kind = "quiz_page" /\ PageSubmitted) =>
          \A i \in (Len(attempts) + 1)..Len(attempts') :
              attempts'[i].question_id \in FormIds(tabs.quiz.display)]_vars

\* the step is the timer script submitting the page at expiry
ExpiryStep == tabs.quiz.kind = "quiz_page" /\ ~tabs.quiz.expired /\ tabs'.quiz.expired

\* the step is a submission of the page whose timer has expired
LateSubmission ==
    /\ tabs.quiz.kind = "quiz_page"
    /\ tabs.quiz.expired
    /\ resp'.route = "quiz_passage"
    /\ resp'.method = "POST"

\* C21: when the timer of a quiz page expires, what was entered is submitted
\* and recorded as a graded, non-practice submission, and after the expiry no
\* further submission of that page is recorded.
ExpirySubmitsAndCloses ==
    [][/\ (ExpiryStep /\ PageSubmitted) =>
             /\ ~resp'.practice
             /\ Len(attempts') = Len(attempts) + Len(resp'.display)
       /\ LateSubmission => attempts' = attempts]_vars

(***************************************************************************)
(* Specification SpecSession: accounts over time.  Student s1 has signed   *)
(* up and nobody is logged in in the student's browser; the teacher is     *)
(* logged in in another.  Signup, login, logout, the student's pages, a    *)
(* page submission, teacher_delete_quiz and teacher_reset_db follow each   *)
(* other in any order; pages are submitted while fewer than                *)
(* MaxSessionAttempts Attempts are stored.                                 *)
(***************************************************************************)
MaxSessionAttempts == 1

InitSession ==
    /\ students = <<StudentRow("s1", DefaultLevel, "6", "A", "F")>>
    /\ quizzes = <<[title |-> "Quiz", is_passage_based |-> 0,
                    use_level_filter |-> 0, timer_seconds |-> 0]>>
    /\ passages = <<>>
    /\ questions = <<QuestionRow(1, Null, "easy")>>
    /\ attempts = <<>>
    /\ session = NoSession
    /\ teacher = TRUE
    /\ resp = NoResp
    /\ tabs = NoTabs
    /\ lc = NoLevelCall
    /\ gr = NoGrade

NextSession ==
    \/ UNCHANGED tabs /\ \E form \in SignupForms : Signup(form)
    \/ UNCHANGED tabs /\ \E form \in LoginForms : Login(form)
    \/ UNCHANGED tabs /\ Logout
    \/ UNCHANGED tabs /\ StudentDashboard
    \/ OpenPlacement
    \/ SubmitPlacement
    \/ OpenQuizPage(1, 0)
    \/ Len(attempts) < MaxSessionAttempts /\ SubmitPage(FALSE)
    \/ UNCHANGED tabs /\ TeacherDeleteQuiz(1, "POST")
    \/ UNCHANGED tabs /\ TeacherResetDb("YES")

SpecSession == InitSession /\ [][NextSession]_vars

\* C25: in every reachable state a session that holds a student_id refers to
\* an existing Student, the one who logged in on that session, so that
\* student_dashboard, placement and quiz_passage never fail for a missing
\* Student.
SessionRefersToStudent ==
    /\ session.student_id # Null =>
          /\ session.student_id \in DOMAIN students
          /\ students[session.student_id].user_id = session.student_user_id
    /\ resp.route \in {"student_dashboard", "placement", "quiz_passage"} =>
          resp.kind # "error"

(***************************************************************************)
(* Specification SpecWalk: one student walks through quiz 1, whose content *)
(* does not change.  The quiz is regular with up to MaxWalkQuestions       *)
(* questions or passage-based with up to MaxWalkPassages passages of one   *)
(* question each.  The browser starts with quiz_start or with a page index *)
(* past the last page, follows every redirect and link, and submits each   *)
(* page it is shown; tabs.submitted counts the pages it has submitted (at  *)
(* most MaxWalkSubmissions).                                               *)
(***************************************************************************)
MaxWalkQuestions == 6

MaxWalkPassages == 2

MaxWalkIndex == 3

MaxWalkSubmissions == 4

\* quiz_start 394-398
QuizStart(quiz_id) ==
    /\ resp' = IF session.student_id = Null
               THEN Reply("quiz_start", "GET", "redirect_login")
               ELSE [route |-> "quiz_start", method |-> "GET",
                     kind |-> "redirect_page", quiz_id |-> quiz_id, p_index |-> 0]
    /\ UNCHANGED <<questions, students, quizzes, passages, attempts, session,
                   teacher, lc, gr>>

InitWalk ==
    /\ \E level \in {DefaultLevel, "beginner"} :
          students = <<StudentRow("s1", level, "6", "A", "F")>>
    /\ \E ulf \in {0, 1} :
          \/ /\ quizzes = <<[title |-> "Quiz", is_passage_based |-> 0,
                             use_level_filter |-> ulf, timer_seconds |-> 0]>>
             /\ passages = <<>>
             /\ \E n \in 0..MaxWalkQuestions :
                   questions = [i \in 1..n |-> QuestionRow(i, Null, "easy")]
          \/ /\ quizzes = <<[title |-> "Quiz", is_passage_based |-> 1,
                             use_level_filter |-> ulf, timer_seconds |-> 0]>>
             /\ \E k \in 0..MaxWalkPassages :
                   /\ passages = [i \in 1..k |-> [id |-> i, quiz_id |-> 1]]
                   /\ questions = [i \in 1..k |-> QuestionRow(i, i, "easy")]
    /\ attempts = <<>>
    /\ session = [student_id |-> 1, student_user_id |-> "s1"]
    /\ teacher = FALSE
    /\ resp = NoResp
    /\ tabs = [placement |-> NoForm, quiz |-> NoForm, submitted |-> 0]
    /\ lc = NoLevelCall
    /\ gr = NoGrade

\* the Start link of the dashboard (330)
WalkStart == resp = NoResp /\ QuizStart(1) /\ UNCHANGED tabs

\* a page address typed with an index past the last page
WalkRequestPastEnd ==
    /\ resp = NoResp
    /\ \E p_index \in 0..MaxWalkIndex :
          /\ QuizPassageSelect(1, p_index).kind # "quiz_page"
          /\ OpenQuizPage(1, p_index)

\* the browser follows the redirect, or the student the Next link (470, 481)
WalkFollow ==
    \/ /\ resp.kind = "redirect_page"
       /\ OpenQuizPage(resp.quiz_id, resp.p_index)
    \/ /\ resp.kind = "redirect_page0"
       /\ OpenQuizPage(1, 0)
    \/ /\ resp.kind \in {"redirect_next", "practice_notice"}
       /\ OpenQuizPage(resp.quiz_id, resp.p_index + 1)
    \/ /\ resp.kind = "redirect_complete"
       /\ QuizComplete(resp.quiz_id)
       /\ UNCHANGED tabs

\* the student submits the page shown, graded or as practice
WalkSubmit ==
    /\ resp.kind = "quiz_page"
    /\ tabs.submitted < MaxWalkSubmissions
    /\ \E practice \in BOOLEAN, answers \in BrowserAnswers(tabs.quiz.display) :
          QuizPassagePost(tabs.quiz.quiz_id, tabs.quiz.p_index,
                          [practice |-> practice, answers |-> answers,
                           bad_time |-> {}])
    /\ tabs' = [tabs EXCEPT !.submitted = @ + 1]

NextWalk ==
    \/ WalkStart
    \/ WalkRequestPastEnd
    \/ WalkFollow
    \/ WalkSubmit

\* the browser follows a redirect at once and the student goes on until the
\* quiz is over
SpecWalk == InitWalk /\ [][NextWalk]_vars /\ WF_vars(NextWalk)

\* the number of pages of quiz 1 as the claim counts them: its passages, or
\* ceil(questions / 5) with a minimum of 1
WalkPages ==
    IF quizzes[1].is_passage_based # 0 THEN Len(passages)
    ELSE IF questions = <<>> THEN 1
    ELSE (Len(questions) + 4) \div 5

\* a redirect for an index out of range goes to index 0, which is a page
RedirectLandsOnPage ==
    resp.kind = "redirect_page0" => QuizPassageSelect(1, 0).kind = "quiz_page"

\* the submission of page p leads to page p + 1 or, from the last page, to
\* quiz_complete, and the redirect or link to page p + 1 shows that page
SubmissionLeadsOn ==
    /\ (resp.kind = "quiz_page" /\ resp'.route = "quiz_passage"
        /\ resp'.method = "POST") =>
          \/ /\ resp'.kind \in {"redirect_next", "practice_notice"}
             /\ resp'.p_index = resp.p_index
             /\ resp.p_index + 1 < WalkPages
          \/ /\ resp'.kind = "redirect_complete"
             /\ resp.p_index + 1 = WalkPages
    /\ resp.kind \in {"redirect_next", "practice_notice"} =>
          /\ resp'.kind = "quiz_page"
          /\ resp'.p_index = resp.p_index + 1

\* quiz_complete is reached after as many submissions as the quiz has pages
CompleteAfterAllPages == resp.kind = "score" => tabs.submitted = WalkPages

\* C26 as stated: quiz navigation terminates: a redirect for an index out of
\* range lands on page 0, each submission leads to the next page or to the
\* completion, and every walk from index 0 reaches quiz_complete after as
\* many submissions as the quiz has pages.
QuizWalkCompletes ==
    /\ []RedirectLandsOnPage
    /\ [][SubmissionLeadsOn]_vars
    /\ []CompleteAfterAllPages
    /\ <>(resp.kind = "score")

\* C26, amended: the same for a regular quiz and for a passage-based quiz
\* with at least one passage; a passage-based quiz without passages answers
\* every page request with the "No passages in this quiz" page, with no
\* redirect, no page to submit and no completion.
QuizWalkCompletesWithPages ==
    /\ []RedirectLandsOnPage
    /\ [][SubmissionLeadsOn]_vars
    /\ []CompleteAfterAllPages
    /\ (WalkPages > 0) ~> (resp.kind = "score")
    /\ (WalkPages = 0) ~> (resp.kind = "no_passages")
    /\ [](resp.kind = "no_passages" => WalkPages = 0)
    /\ [](WalkPages = 0 => tabs.submitted = 0)

QuizWalkCompletesWitness ==
    /\ resp.kind = "score"
    /\ tabs.submitted = 2
    /\ Len(questions) = 6
    /\ quizzes[1].is_passage_based = 0
    /\ Len(attempts) = 5

====
